---- MODULE Spec2Model ----
(***************************************************************************)
(* Model of src/src/service/BootstrapUtils.ts: the template-tree generator *)
(* (generateConfiguration, runTemplate, formatJson), the pruner            *)
(* (pruneEmpty) and the formatters (toAmount, toHex, toSimpleHex).         *)
(*                                                                         *)
(* Strings are sequences of tokens.  The tokens ".mustache", ".json",      *)
(* ".JSON" and "/" stand for those substrings.                             *)
(***************************************************************************)
EXTENDS Integers, Sequences, FiniteSets, TLC

VARIABLES
    obj,             \* pruneEmpty: the caller's argument as it was before the call
    heap,            \* pruneEmpty: the objects in memory: address -> cell
    pruned,          \* pruneEmpty: the value returned by pruneEmpty(obj)
    twice,           \* pruneEmpty: the value returned by pruneEmpty(pruned)
    pstep,           \* pruneEmpty: "input" -> "pruned" -> "twice"
    input,           \* formatters: the renderedText a formatter is called with
    called,          \* formatters: the call made last, "none" before any
    result,          \* formatters: what that call returned or threw
    firstAmount,     \* formatters: what toAmount(input) returned
    tree,            \* the source tree under copyFrom: a set of nodes
    templateContext, \* generateConfiguration's templateContext
    excludeFiles,    \* generateConfiguration's excludeFiles
    includeFiles,    \* generateConfiguration's includeFiles
    pc,              \* where each map callback and each call stands
    err,             \* the message of the error each of them failed with
    fs,              \* the destination file system: path -> entry
    written,         \* the source entries whose task has written in this run
    lateStart,       \* a task was started after some task had failed
    run,             \* the current generateConfiguration run: "first", "second"
    firstRun         \* the destination file system left by the first run

pvars == <<obj, heap, pruned, twice, pstep>>

inputs == <<tree, templateContext, excludeFiles, includeFiles>>

gvars == <<inputs, pc, err, fs, written, lateStart, run, firstRun>>

fvars == <<input, called, result, firstAmount>>

vars == <<pvars, fvars, gvars>>

(***************************************************************************)
(* Values: the nested data pruneEmpty works on.  A value is a record       *)
(* [k, v]: k = "sc" for a scalar (v its token), "map" for a mapping (v a   *)
(* function from keys to values), "seq" for a sequence (v a sequence of    *)
(* values).                                                                *)
(***************************************************************************)
Sc(s) == [k |-> "sc", v |-> s]

Undefined == Sc("undefined")

\* The scalars: undefined, null, NaN, 0, false and the empty string.
Scalars == {Sc(s) : s \in {"undefined", "null", "NaN", "0", "false", ""}}

EmptyMap == [k |-> "map", v |-> [key \in {} |-> Undefined]]

EmptySeq == [k |-> "seq", v |-> <<>>]

\* The generated inputs have at most MaxValueSize nodes (scalars and
\* containers together).
MaxValueSize == 4

KeyNames == <<"a", "b", "c", "d", "e", "f">>

RECURSIVE MapEntries(_, _)
MapEntries(s, n) ==
    IF n = 0 THEN [key \in {} |-> Undefined]
    ELSE (KeyNames[n] :> s[n]) @@ MapEntries(s, n - 1)

\* The mapping whose i-th key holds s[i].
MapOfSeq(s) == [k |-> "map", v |-> MapEntries(s, Len(s))]

RECURSIVE ValueTable(_)
\* ValueTable(n)[i], for i in 1..n: vals, the values of exactly i nodes, and
\* kids, the sequences of values of i - 1 nodes in all.
ValueTable(n) ==
    IF n = 0 THEN <<>>
    ELSE LET t == ValueTable(n - 1)
             kids == IF n = 1 THEN {<<>>}
                     ELSE UNION { {<<c>> \o r : c \in t[j].vals, r \in t[n - j].kids}
                                  : j \in 1..(n - 1) }
             vals == IF n = 1 THEN Scalars \cup {EmptyMap, EmptySeq}
                     ELSE {[k |-> "seq", v |-> s] : s \in kids}
                            \cup {MapOfSeq(s) : s \in kids}
         IN  Append(t, [vals |-> vals, kids |-> kids])

\* The values of at most size nodes.
ValuesUpTo(size) ==
    LET t == ValueTable(size) IN UNION {t[n].vals : n \in 1..size}

(***************************************************************************)
(* pruneEmpty (BootstrapUtils.ts:97-110) and the lodash predicates it      *)
(* calls.                                                                  *)
(***************************************************************************)
isUndefined(value) == value.k = "sc" /\ value.v = "undefined"

isNull(value) == value.k = "sc" /\ value.v = "null"

isNaN(value) == value.k = "sc" /\ value.v = "NaN"

isObject(value) == value.k \in {"map", "seq"}

isArray(value) == value.k = "seq"

\* Mutant of isEmpty: an empty sequence does not count as empty.
isEmpty_ofMappingsOnly(value) ==
    CASE value.k = "map" -> DOMAIN value.v = {}
      [] value.k = "seq" -> FALSE
      [] OTHER -> TRUE

isEmpty(value) ==
    CASE value.k = "map" -> DOMAIN value.v = {}
      [] value.k = "seq" -> Len(value.v) = 0
      [] OTHER -> TRUE

\* _.cloneDeep: a structurally equal copy.
cloneDeep(value) == value

\* Mutant of pull: the leftover holes are not removed.
pull_keepsHoles(array, value) == array

\* _.pull(array, value): every element strictly equal to value is spliced
\* out; a hole left by delete reads as undefined.
pull(array, value) == SelectSeq(array, LAMBDA e : e # value)

RECURSIVE prune(_)

\* Mutant of shouldDelete: emptiness is tested on the value before it is pruned.
shouldDelete_beforePrune(value) ==
    \/ isUndefined(value)
    \/ isNull(value)
    \/ isNaN(value)
    \/ (isObject(value) /\ isEmpty(value))

\* The condition of line 100.
shouldDelete(value) ==
    \/ isUndefined(value)
    \/ isNull(value)
    \/ isNaN(value)
    \/ (isObject(value) /\ isEmpty(prune(value)))

\* What an entry that is kept holds after the callback: prune(value) has
\* pruned a nested object in place.
afterCallback(value) == IF isObject(value) THEN prune(value) ELSE value

\* _.forOwn(current, ...) with delete current[key] (lines 99-103): a deleted
\* key of a mapping is gone, a deleted index of an array is a hole.
forOwnDelete(current) ==
    CASE current.k = "map" ->
            [current EXCEPT !.v =
                [key \in {x \in DOMAIN current.v : ~shouldDelete(current.v[x])} |->
                    afterCallback(current.v[key])]]
      [] current.k = "seq" ->
            [current EXCEPT !.v =
                [i \in 1..Len(current.v) |->
                    IF shouldDelete(current.v[i]) THEN Undefined
                    ELSE afterCallback(current.v[i])]]
      [] OTHER -> current

\* The inner function prune (lines 98-109).
prune(current) ==
    LET c == forOwnDelete(current)
    IN  IF isArray(c) THEN [c EXCEPT !.v = pull(c.v, Undefined)] ELSE c

pruneEmpty(o) == prune(cloneDeep(o))

(***************************************************************************)
(* pruneEmpty in memory.  prune works in place: delete and _.pull change   *)
(* the object they are given, and only _.cloneDeep (line 110) stands       *)
(* between prune and the caller's object.  The heap maps an address to a   *)
(* cell [k, v]: k = "map" or "seq", v the slots of the object.  A slot is  *)
(* a scalar or a reference [k |-> "ref", v |-> address].  An address is    *)
(* the name of a root followed by the path at which the object was         *)
(* allocated.                                                              *)
(***************************************************************************)
Ref(a) == [k |-> "ref", v |-> a]

childAddr(a, kind, x) == Append(a, IF kind = "seq" THEN ToString(x) ELSE x)

\* What a variable or an entry holding value, allocated at a, contains.
slotOf(a, value) == IF isObject(value) THEN Ref(a) ELSE value

RECURSIVE MergeAll(_)
MergeAll(fs_) ==
    IF fs_ = {} THEN <<>>
    ELSE LET f == CHOOSE g \in fs_ : TRUE IN f @@ MergeAll(fs_ \ {f})

RECURSIVE Store(_, _)
\* The cells of value when it is allocated at address a.
Store(a, value) ==
    IF ~isObject(value) THEN <<>>
    ELSE (a :> [k |-> value.k,
                v |-> [x \in DOMAIN value.v |->
                          slotOf(childAddr(a, value.k, x), value.v[x])]])
         @@ MergeAll({Store(childAddr(a, value.k, x), value.v[x]) : x \in DOMAIN value.v})

RECURSIVE Read(_, _)
\* The value a slot holds in heap h.
Read(h, slot) ==
    IF slot.k # "ref" THEN slot
    ELSE LET cell == h[slot.v]
         IN  [k |-> cell.k, v |-> [x \in DOMAIN cell.v |-> Read(h, cell.v[x])]]

RECURSIVE Reach(_, _)
\* The addresses of the objects reachable from the object at a.
Reach(h, a) ==
    {a} \cup UNION {Reach(h, h[a].v[x].v) : x \in {y \in DOMAIN h[a].v : h[a].v[y].k = "ref"}}

Rebase(a, name) == <<name>> \o Tail(a)

\* Mutant of cloneDeepHeap: a shallow copy (_.clone), nested objects shared.
cloneDeepHeap_shallow(h, slot, name) ==
    IF slot.k # "ref" THEN [heap |-> h, root |-> slot]
    ELSE [heap |-> (Rebase(slot.v, name) :> h[slot.v]) @@ h,
          root |-> Ref(Rebase(slot.v, name))]

\* _.cloneDeep(obj) (line 110) in memory: every object reachable from slot is
\* copied to a fresh address under name, the copies referring to copies.
cloneDeepHeap(h, slot, name) ==
    IF slot.k # "ref" THEN [heap |-> h, root |-> slot]
    ELSE LET copyOf(cell) ==
                 [cell EXCEPT !.v =
                     [x \in DOMAIN cell.v |->
                         IF cell.v[x].k = "ref" THEN Ref(Rebase(cell.v[x].v, name))
                         ELSE cell.v[x]]]
         IN  [heap |-> MergeAll({Rebase(a, name) :> copyOf(h[a]) : a \in Reach(h, slot.v)}) @@ h,
              root |-> Ref(Rebase(slot.v, name))]

\* What lines 99-106 leave in the object at a: the entries line 100 condemns
\* are deleted from it, and for an array the holes are pulled out.
pruneCell(h, a) ==
    LET cell == h[a]
        gone(x) == shouldDelete(Read(h, cell.v[x]))
    IN  CASE cell.k = "map" ->
                [cell EXCEPT !.v = [key \in {x \in DOMAIN cell.v : ~gone(x)} |-> cell.v[key]]]
          [] cell.k = "seq" ->
                [cell EXCEPT !.v =
                    pull([i \in 1..Len(cell.v) |-> IF gone(i) THEN Undefined ELSE cell.v[i]],
                         Undefined)]

\* prune(current) in memory (lines 98-109): line 100 calls prune on every
\* nested object, kept or deleted, so every object reachable from current
\* is pruned, each at its own address.
pruneInPlace(h, slot) ==
    IF slot.k # "ref" THEN h
    ELSE LET reached == Reach(h, slot.v)
         IN  [a \in DOMAIN h |-> IF a \in reached THEN pruneCell(h, a) ELSE h[a]]

\* The references the caller holds: to its argument and to the first result.
ObjRef == slotOf(<<"obj">>, obj)

FirstRef == slotOf(<<"first">>, pruned)

(***************************************************************************)
(* The pruner's specification: a caller prunes a value, then prunes the    *)
(* result again.                                                           *)
(***************************************************************************)
PruneInit ==
    /\ obj \in ValuesUpTo(MaxValueSize)
    /\ heap = Store(<<"obj">>, obj)
    /\ pruned = Undefined
    /\ twice = Undefined
    /\ pstep = "input"
    /\ input = <<>>
    /\ called = "idle"
    /\ result = <<>>
    /\ firstAmount = <<>>
    /\ tree = {}
    /\ templateContext = [key |-> "", v |-> ""]
    /\ excludeFiles = {}
    /\ includeFiles = {}
    /\ pc = <<>>
    /\ err = <<>>
    /\ fs = <<>>
    /\ written = {}
    /\ lateStart = FALSE
    /\ run = "none"
    /\ firstRun = <<>>

CallPruneEmpty ==
    /\ pstep = "input"
    /\ LET c == cloneDeepHeap(heap, ObjRef, "first")
           h == pruneInPlace(c.heap, c.root)
       IN  /\ heap' = h
           /\ pruned' = Read(h, c.root)
    /\ pstep' = "pruned"
    /\ UNCHANGED <<obj, twice, fvars, gvars>>

CallPruneEmptyAgain ==
    /\ pstep = "pruned"
    /\ LET c == cloneDeepHeap(heap, FirstRef, "second")
           h == pruneInPlace(c.heap, c.root)
       IN  /\ heap' = h
           /\ twice' = Read(h, c.root)
    /\ pstep' = "twice"
    /\ UNCHANGED <<obj, pruned, fvars, gvars>>

PruneNext == CallPruneEmpty \/ CallPruneEmptyAgain

PruneSpec == PruneInit /\ [][PruneNext]_vars

(***************************************************************************)
(* Claims about pruneEmpty.                                                *)
(***************************************************************************)
IsBadLeaf(value) == isUndefined(value) \/ isNull(value) \/ isNaN(value)

Entries(value) ==
    CASE value.k = "map" -> {value.v[key] : key \in DOMAIN value.v}
      [] value.k = "seq" -> {value.v[i] : i \in 1..Len(value.v)}
      [] OTHER -> {}

RECURSIVE NothingToPrune(_)
NothingToPrune(value) ==
    \A e \in Entries(value) :
        /\ ~IsBadLeaf(e)
        /\ ~(e.k = "map" /\ DOMAIN e.v = {})
        /\ NothingToPrune(e)

RECURSIVE HasBadLeafInSeq(_)
HasBadLeafInSeq(value) ==
    \/ (value.k = "seq" /\ \E e \in Entries(value) : IsBadLeaf(e))
    \/ \E e \in Entries(value) : HasBadLeafInSeq(e)

RECURSIVE HasNestedEmptiable(_)
\* A mapping nested in value whose entries are all pruned away.
HasNestedEmptiable(value) ==
    \E e \in Entries(value) :
        \/ (e.k = "map" /\ DOMAIN e.v # {} /\ DOMAIN prune(e).v = {})
        \/ HasNestedEmptiable(e)

\* C9: the value returned by pruneEmpty holds, at every depth and inside
\* sequences as well as mappings, no undefined, null or NaN value and no
\* empty nested mapping.
C9_PrunedIsClean == pstep # "input" => NothingToPrune(pruned)

\* C9 witness: a pruned input that held a null/undefined/NaN element inside
\* a sequence and a nested mapping that pruning empties.
C9_Witness ==
    /\ pstep = "pruned"
    /\ HasBadLeafInSeq(obj)
    /\ HasNestedEmptiable(obj)

\* C10: pruneEmpty is idempotent: pruneEmpty(pruneEmpty(x)) = pruneEmpty(x).
C10_PruneIdempotent == pstep = "twice" => twice = pruned

\* C10 witness: the second application has run on the result of a first one
\* that removed something and left something.
C10_Witness ==
    /\ pstep = "twice"
    /\ pruned # obj
    /\ isObject(pruned) /\ ~isEmpty(pruned)
    /\ HasNestedEmptiable(obj)

\* The objects of the caller's argument that pruning a deep copy empties
\* while the argument's own object still holds its entries.
EmptiedInCopyOnly ==
    {a \in DOMAIN heap :
        /\ a[1] = "obj" /\ Len(a) >= 2
        /\ DOMAIN heap[a].v # {}
        /\ Rebase(a, "first") \in DOMAIN heap
        /\ DOMAIN heap[Rebase(a, "first")].v = {}}

\* C11: pruneEmpty leaves the object it is given unchanged at every depth,
\* entries absent from the returned value included: after each call the
\* caller's object reads as it did before the call.
C11_ArgumentUnchanged ==
    /\ pstep \in {"pruned", "twice"} => Read(heap, ObjRef) = obj
    /\ pstep = "twice" => Read(heap, FirstRef) = pruned

\* C11 witness: a call has emptied a nested object of the copy (so the entry
\* holding it is absent from the result) and the argument's object still
\* holds its entries.
C11_Witness ==
    /\ pstep = "pruned"
    /\ pruned # obj
    /\ EmptiedInCopyOnly # {}

\* The returned value computed in memory is the value prune computes.
ReturnsPruneOfClone ==
    /\ pstep \in {"pruned", "twice"} => pruned = pruneEmpty(obj)
    /\ pstep = "twice" => twice = pruneEmpty(pruned)

RECURSIVE Surviving(_)
RECURSIVE SurvivingElements(_)

\* The entries the claim has removed: undefined, null, NaN, and a mapping
\* or sequence of which no entry survives.
IsRemoved(value) ==
    \/ value \in {Sc("undefined"), Sc("null"), Sc("NaN")}
    \/ (value.k = "map" /\ DOMAIN Surviving(value).v = {})
    \/ (value.k = "seq" /\ Surviving(value).v = <<>>)

\* The elements of a sequence that survive, in their order, one after the
\* other.
SurvivingElements(s) ==
    IF s = <<>> THEN <<>>
    ELSE (IF IsRemoved(Head(s)) THEN <<>> ELSE <<Surviving(Head(s))>>)
             \o SurvivingElements(Tail(s))

\* value without the removed entries, at every depth.
Surviving(value) ==
    CASE value.k = "map" ->
            [k |-> "map",
             v |-> [key \in {x \in DOMAIN value.v : ~IsRemoved(value.v[x])} |->
                      Surviving(value.v[key])]]
      [] value.k = "seq" -> [k |-> "seq", v |-> SurvivingElements(value.v)]
      [] OTHER -> value

KeptScalars == {Sc("0"), Sc("false"), Sc("")}

\* C16: pruneEmpty removes an entry exactly when its value is undefined,
\* null, NaN, or a mapping or sequence that is empty after being pruned;
\* every other scalar (0, false and the empty string among them) is kept
\* with its value, and the surviving elements of a sequence keep their
\* order, with no gaps.
C16_RemovesExactlyEmptyEntries ==
    /\ pstep \in {"pruned", "twice"} => pruned = Surviving(obj)
    /\ pstep = "twice" => twice = Surviving(pruned)

\* C16 witness: a pruned sequence in which a kept scalar came after a
\* removed null, undefined or NaN and in which a nested mapping or sequence
\* was removed as empty.
C16_Witness ==
    /\ pstep = "pruned"
    /\ obj.k = "seq"
    /\ \E i, j, c \in 1..Len(obj.v) :
        /\ i < j
        /\ IsBadLeaf(obj.v[i])
        /\ obj.v[j] \in KeptScalars
        /\ isObject(obj.v[c]) /\ IsRemoved(obj.v[c])
        /\ pruned.v = <<obj.v[j]>>

(***************************************************************************)
(* Strings and paths.  A string is a sequence of tokens; a path is a       *)
(* string whose "/" tokens separate its names.                             *)
(***************************************************************************)
\* path.join(dir, file)
join(dir, file) == dir \o <<"/">> \o file

\* string.indexOf(token) > -1
contains(string, token) == \E i \in 1..Len(string) : string[i] = token

\* string.replace(token, ''): the first occurrence only.
replaceFirst(string, token) ==
    IF contains(string, token)
    THEN LET i == CHOOSE j \in 1..Len(string) :
                    /\ string[j] = token
                    /\ \A h \in 1..(j - 1) : string[h] # token
         IN  SubSeq(string, 1, i - 1) \o SubSeq(string, i + 1, Len(string))
    ELSE string

\* The place of the last "/" of a path, 0 when it has none.
lastSlash(path) ==
    IF contains(path, "/")
    THEN CHOOSE j \in 1..Len(path) :
            /\ path[j] = "/"
            /\ \A h \in (j + 1)..Len(path) : path[h] # "/"
    ELSE 0

\* path.basename(path)
basename(path) == SubSeq(path, lastSlash(path) + 1, Len(path))

\* The directory a path lies in.
dirname(path) == SubSeq(path, 1, lastSlash(path) - 1)

\* string.toLowerCase()
toLowerCase(string) ==
    [i \in 1..Len(string) |-> IF string[i] = ".JSON" THEN ".json" ELSE string[i]]

\* string.endsWith(token)
endsWith(string, token) == Len(string) > 0 /\ string[Len(string)] = token

(***************************************************************************)
(* The inputs of generateConfiguration.                                    *)
(***************************************************************************)
copyFrom == <<"src">>

copyTo == <<"out">>

\* The private keys a context may hold.
SecretValues == {"KEY1", "KEY2"}

Contexts == {[key |-> k, v |-> "1"] : k \in SecretValues}

\* Contents of source files.
SpacedJson == <<"[", " ", "1", "]">>

TemplateOk == <<"[", "{{v}}", " ", "]">>

TemplateSecret == <<"[", "{{key}}">>

TemplateHelper == <<"{{toAmount key}}">>

TemplateBad == <<"{{#if">>

\* The entries a source directory may hold at the root: name, kind, content
\* and permission bits.
RootEntries ==
    {[name |-> <<"a">>, kind |-> "file", text |-> SpacedJson, mode |-> "0644"],
     [name |-> <<"c", ".json">>, kind |-> "file", text |-> SpacedJson, mode |-> "0755"],
     [name |-> <<"d">>, kind |-> "dir", text |-> <<>>, mode |-> "0755"],
     [name |-> <<"d", ".mustache">>, kind |-> "dir", text |-> <<>>, mode |-> "0755"]}
    \cup {[name |-> <<"a", ".mustache">>, kind |-> "file", text |-> t, mode |-> "0644"]
            : t \in {TemplateOk, TemplateHelper}}
    \cup {[name |-> <<"c", ".JSON", ".mustache">>, kind |-> "file", text |-> t, mode |-> "0644"]
            : t \in {TemplateOk, TemplateSecret}}

\* The entries a subdirectory may hold.
SubEntries ==
    {[name |-> <<"a">>, kind |-> "file", text |-> SpacedJson, mode |-> "0644"]}
    \cup {[name |-> <<"a", ".mustache">>, kind |-> "file", text |-> t, mode |-> "0644"]
            : t \in {TemplateOk, TemplateBad}}

\* A source tree holds at most MaxEntries entries.
MaxEntries == 3

\* A node of a source tree: its path below copyFrom (a sequence of names),
\* its kind, content and permission bits.
NodeOf(dir, e) ==
    [path |-> Append(dir, e.name), kind |-> e.kind, text |-> e.text, mode |-> e.mode]

Parent(path) == SubSeq(path, 1, Len(path) - 1)

\* The nodes that may be added to tree t: a new name in the root or in one
\* of its directories.
Addable(t) ==
    LET paths == {n.path : n \in t}
        dirs == {n.path : n \in {m \in t : m.kind = "dir"}}
    IN  {n \in {NodeOf(<<>>, e) : e \in RootEntries}
                \cup UNION {{NodeOf(d, e) : e \in SubEntries} : d \in dirs}
            : n.path \notin paths}

RECURSIVE TreesUpTo(_)
TreesUpTo(n) ==
    IF n = 0 THEN {{}}
    ELSE LET smaller == TreesUpTo(n - 1)
         IN  smaller \cup UNION {{t \cup {x} : x \in Addable(t)} : t \in smaller}

\* The excludeFiles and includeFiles lists.
NameLists == {{}, {<<"a">>}}

(***************************************************************************)
(* Rendering: Handlebars, runTemplate (lines 82-94), formatJson (lines     *)
(* 177-184) and the collaborators Utils.secureString and YamlUtils.toYaml. *)
(* A call that may throw returns [ok, text]: the value when ok, the        *)
(* error's message otherwise.                                              *)
(***************************************************************************)
Returns(text) == [ok |-> TRUE, text |-> text]

Throws(message) == [ok |-> FALSE, text |-> message]

\* Utils.secureString: every secret-shaped token is replaced by a placeholder.
secureString(text) ==
    [i \in 1..Len(text) |-> IF text[i] \in SecretValues THEN "HIDDEN" ELSE text[i]]

\* YamlUtils.toYaml of a context.
toYaml(context) == <<"key: ", context.key, "\n", "v: ", context.v, "\n">>

\* The helper toAmount (lines 149-155) applied to a private key: the text is
\* no decimal integer, so line 152 throws.
toAmountOfKey(renderedText) ==
    Throws(<<"'", renderedText, "' is not a valid integer">>)

\* Handlebars.compile(template) (line 84): an unclosed block is a parse
\* error whose message quotes the template.
compile(template) ==
    IF contains(template, "{{#if")
    THEN Throws(<<"Parse error on line 1: ">> \o template)
    ELSE Returns(template)

RECURSIVE execute(_, _)
\* compiledTemplate(templateContext) (line 85): each expression is replaced
\* by its value; a helper that throws ends the rendering.
execute(template, context) ==
    IF template = <<>> THEN Returns(<<>>)
    ELSE LET head == template[1]
             rest == execute(Tail(template), context)
             value == CASE head = "{{v}}" -> Returns(<<context.v>>)
                        [] head = "{{key}}" -> Returns(<<context.key>>)
                        [] head = "{{toAmount key}}" -> toAmountOfKey(context.key)
                        [] OTHER -> Returns(<<head>>)
         IN  IF ~value.ok THEN value
             ELSE IF ~rest.ok THEN rest
             ELSE Returns(value.text \o rest.text)

\* runTemplate (lines 82-94).
runTemplate(template, context) ==
    LET compiled == compile(template)
        outcome == IF compiled.ok THEN execute(template, context) ELSE compiled
    IN  IF outcome.ok THEN outcome
        ELSE LET securedTemplate == secureString(template)
                 securedContext == secureString(toYaml(context))
                 securedMessage == secureString(outcome.text)
             IN  Throws(<<"Unknown error rendering template. Error: ">> \o securedMessage
                        \o <<"\nTemplate:\n">> \o securedTemplate \o <<".">>
                        \o <<"\nContext: \n">> \o securedContext)

\* JSON texts: the number 1 and the flat arrays of it, with any white space
\* between the tokens.
isWhitespace(token) == token \in {" ", "\n"}

stripWhitespace(string) == SelectSeq(string, LAMBDA token : ~isWhitespace(token))

\* The number of elements of the array a compact text spells, -1 when it
\* spells a bare 1 and -2 when it is no JSON.
jsonShape(compact) ==
    LET n == Len(compact)
    IN  CASE compact = <<"1">> -> -1
          [] compact = <<"[", "]">> -> 0
          [] /\ n >= 3 /\ n % 2 = 1
             /\ compact[1] = "[" /\ compact[n] = "]"
             /\ \A i \in 2..(n - 1) : compact[i] = (IF i % 2 = 0 THEN "1" ELSE ",")
                -> (n - 1) \div 2
          [] OTHER -> -2

RECURSIVE prettyElements(_)
prettyElements(count) ==
    IF count = 0 THEN <<>>
    ELSE prettyElements(count - 1)
            \o (IF count > 1 THEN <<",">> ELSE <<>>) \o <<"\n", " ", " ", "1">>

\* JSON.stringify(value, null, 2)
stringifyPretty(shape) ==
    CASE shape = -1 -> <<"1">>
      [] shape = 0 -> <<"[", "]">>
      [] OTHER -> <<"[">> \o prettyElements(shape) \o <<"\n", "]">>

\* JSON.parse(string), as the shape of the value
parseJson(string) ==
    LET shape == jsonShape(stripWhitespace(string))
    IN  IF shape = -2 THEN Throws(<<"Unexpected token in JSON">>) ELSE Returns(shape)

\* Mutant of formatJson: the text is validated and returned as it is.
formatJson_asRendered(string) ==
    LET parsed == parseJson(string)
    IN  IF parsed.ok THEN Returns(string)
        ELSE Throws(parsed.text \o <<":JSON\n ">> \o string)

\* formatJson (lines 177-184).
formatJson(string) ==
    LET parsed == parseJson(string)
    IN  IF parsed.ok THEN Returns(stringifyPretty(parsed.text))
        ELSE Throws(parsed.text \o <<":JSON\n ">> \o string)

\* A text is JSON pretty-printed with two-space indentation.
IsPrettyJson(string) ==
    LET parsed == parseJson(string)
    IN  parsed.ok /\ string = stringifyPretty(parsed.text)

(***************************************************************************)
(* The formatters toAmount (lines 149-155), toHex (157-163) and            *)
(* toSimpleHex (165-170).  Their texts are sequences of characters.        *)
(***************************************************************************)
Apostrophe == "'"

\* The characters of the generated texts: two digits, a letter, the
\* apostrophe and a character that is not a word character.
Chars == {"0", "1", "x", Apostrophe, "-"}

\* \d and \w on these characters.
Digits == {"0", "1"}

WordChars == {"0", "1", "x"}

\* The generated texts: any text of at most MaxTextLen characters followed
\* by one of these runs of digits.
MaxTextLen == 4

DigitRuns == {<<>>, <<"1", "0", "0", "0">>, <<"0", "1", "0", "0", "0", "1", "0">>}

RECURSIVE TextsOfLen(_)
TextsOfLen(n) ==
    IF n = 0 THEN {<<>>}
    ELSE {Append(t, c) : t \in TextsOfLen(n - 1), c \in Chars}

Texts(maxLen) ==
    {t \o d : t \in UNION {TextsOfLen(n) : n \in 0..maxLen}, d \in DigitRuns}

\* string.split("'").join('')
withoutApostrophes(string) == SelectSeq(string, LAMBDA c : c # Apostrophe)

\* string.replace(/^(0x)/, '')
withoutLeading0x(string) ==
    IF Len(string) >= 2 /\ string[1] = "0" /\ string[2] = "x"
    THEN SubSeq(string, 3, Len(string))
    ELSE string

RECURSIVE matchFrom(_, _, _, _)
\* The matches of /C{1,size}(?=(C{size})*$)/g in string from index i on, C
\* the characters of class: at i the longest run of one to size characters
\* of class after which only whole groups of size characters of class lead
\* to the end; where there is none the search moves one character on.
matchFrom(string, i, class, size) ==
    IF i > Len(string) THEN <<>>
    ELSE LET fits(n) ==
                 /\ i + n - 1 <= Len(string)
                 /\ \A j \in i..Len(string) : string[j] \in class
                 /\ (Len(string) - (i + n - 1)) % size = 0
             lengths == {n \in 1..size : fits(n)}
         IN  IF lengths = {} THEN matchFrom(string, i + 1, class, size)
             ELSE LET n == CHOOSE m \in lengths : \A l \in lengths : l <= m
                  IN  <<SubSeq(string, i, i + n - 1)>>
                          \o matchFrom(string, i + n, class, size)

RECURSIVE chunksFromLeft(_, _)
chunksFromLeft(string, size) ==
    IF Len(string) <= size THEN <<string>>
    ELSE <<SubSeq(string, 1, size)>>
             \o chunksFromLeft(SubSeq(string, size + 1, Len(string)), size)

\* Mutant of matchGroups: the groups are counted from the left.
matchGroups_fromLeft(string, class, size) ==
    IF \A j \in 1..Len(string) : string[j] \in class
    THEN chunksFromLeft(string, size)
    ELSE <<string>>

\* (string.match(/C{1,size}(?=(C{size})*$)/g) || [string]) of lines 154, 162.
matchGroups(string, class, size) ==
    LET m == matchFrom(string, 1, class, size)
    IN  IF m = <<>> THEN <<string>> ELSE m

RECURSIVE joinArray(_, _)
\* array.join(separator)
joinArray(array, separator) ==
    IF Len(array) = 0 THEN <<>>
    ELSE IF Len(array) = 1 THEN array[1]
    ELSE array[1] \o <<separator>> \o joinArray(Tail(array), separator)

\* Mutant of toSimpleHex: a leading 0x is not removed.
toSimpleHex_keepsPrefix(renderedText) ==
    IF renderedText = <<>> THEN <<>>
    ELSE withoutApostrophes(renderedText)

toSimpleHex(renderedText) ==
    IF renderedText = <<>> THEN <<>>
    ELSE withoutLeading0x(withoutApostrophes(renderedText))

toHex(renderedText) ==
    IF renderedText = <<>> THEN <<>>
    ELSE LET numberAsString == toSimpleHex(renderedText)
         IN  <<"0", "x">> \o joinArray(matchGroups(numberAsString, WordChars, 4), Apostrophe)

toAmount(renderedText) ==
    LET numberAsString == withoutApostrophes(renderedText)
    IN  IF ~(Len(numberAsString) >= 1
             /\ \A j \in 1..Len(numberAsString) : numberAsString[j] \in Digits)
        THEN Throws(<<Apostrophe>> \o renderedText \o <<"' is not a valid integer">>)
        ELSE Returns(joinArray(matchGroups(numberAsString, Digits, 3), Apostrophe))

(***************************************************************************)
(* The formatters' specification: a caller formats a text with one of the  *)
(* formatters, and formats what toAmount returned once more.               *)
(***************************************************************************)
FormatInit ==
    /\ input \in Texts(MaxTextLen)
    /\ called = "none"
    /\ result = <<>>
    /\ firstAmount = <<>>
    /\ obj = Undefined
    /\ heap = <<>>
    /\ pruned = Undefined
    /\ twice = Undefined
    /\ pstep = "idle"
    /\ tree = {}
    /\ templateContext = [key |-> "", v |-> ""]
    /\ excludeFiles = {}
    /\ includeFiles = {}
    /\ pc = <<>>
    /\ err = <<>>
    /\ fs = <<>>
    /\ written = {}
    /\ lateStart = FALSE
    /\ run = "none"
    /\ firstRun = <<>>

CallToSimpleHex ==
    /\ called = "none"
    /\ called' = "toSimpleHex"
    /\ result' = Returns(toSimpleHex(input))
    /\ UNCHANGED <<input, firstAmount, pvars, gvars>>

CallToHex ==
    /\ called = "none"
    /\ called' = "toHex"
    /\ result' = Returns(toHex(input))
    /\ UNCHANGED <<input, firstAmount, pvars, gvars>>

CallToAmount ==
    /\ called = "none"
    /\ called' = "toAmount"
    /\ result' = toAmount(input)
    /\ firstAmount' = result'
    /\ UNCHANGED <<input, pvars, gvars>>

CallToAmountAgain ==
    /\ called = "toAmount"
    /\ result.ok
    /\ called' = "toAmountAgain"
    /\ result' = toAmount(result.text)
    /\ UNCHANGED <<input, firstAmount, pvars, gvars>>

FormatNext ==
    \/ CallToSimpleHex
    \/ CallToHex
    \/ CallToAmount
    \/ CallToAmountAgain

FormatSpec == FormatInit /\ [][FormatNext]_vars

(***************************************************************************)
(* Claims about the formatters.                                            *)
(***************************************************************************)
RECURSIVE GroupedFromRight(_, _)
\* string cut into groups of size characters from the right, the groups
\* separated by apostrophes.
GroupedFromRight(string, size) ==
    IF Len(string) <= size THEN string
    ELSE GroupedFromRight(SubSeq(string, 1, Len(string) - size), size)
             \o <<Apostrophe>>
             \o SubSeq(string, Len(string) - size + 1, Len(string))

RECURSIVE ApostrophesRemoved(_)
ApostrophesRemoved(string) ==
    IF string = <<>> THEN <<>>
    ELSE IF Head(string) = Apostrophe THEN ApostrophesRemoved(Tail(string))
    ELSE <<Head(string)>> \o ApostrophesRemoved(Tail(string))

\* text with its apostrophes and an optional leading 0x removed.
SimpleHexOf(string) ==
    LET bare == ApostrophesRemoved(string)
    IN  IF Len(bare) >= 2 /\ SubSeq(bare, 1, 2) = <<"0", "x">>
        THEN SubSeq(bare, 3, Len(bare))
        ELSE bare

RECURSIVE TrailingWordRun(_)
\* The longest run of word characters string ends with.
TrailingWordRun(string) ==
    IF string = <<>> \/ string[Len(string)] \notin WordChars THEN <<>>
    ELSE Append(TrailingWordRun(SubSeq(string, 1, Len(string) - 1)), string[Len(string)])

IsSimpleHexOfInput ==
    called = "toSimpleHex" => result = Returns(SimpleHexOf(input))

\* C12 as stated: for every input text, toHex(text) is 0x followed by the
\* characters of toSimpleHex(text) grouped in fours from the right with
\* apostrophes between the groups, toSimpleHex(text) being text without its
\* apostrophes and without a leading 0x.
C12_HexIsPrefixedGroups ==
    /\ IsSimpleHexOfInput
    /\ called = "toHex" =>
           result = Returns(<<"0", "x">> \o GroupedFromRight(SimpleHexOf(input), 4))

\* C12 amended: toSimpleHex(text) is text without its apostrophes and
\* without a leading 0x.  toHex of the empty text is the empty text, with
\* no 0x.  toHex of any other text is 0x followed by the word characters
\* toSimpleHex(text) ends with, grouped in fours from the right with
\* apostrophes between the groups: all of toSimpleHex(text) when it is
\* made of word characters only.  When toSimpleHex(text) ends with another
\* character, toHex(text) is 0x followed by toSimpleHex(text) as it is.
C12_HexOfWordCharacters ==
    /\ IsSimpleHexOfInput
    /\ called = "toHex" =>
           IF input = <<>> THEN result = Returns(<<>>)
           ELSE LET simple == SimpleHexOf(input)
                    wordRun == TrailingWordRun(simple)
                IN  result = Returns(<<"0", "x">> \o
                                 (IF wordRun = <<>> THEN simple
                                  ELSE GroupedFromRight(wordRun, 4)))

\* C12 witness: toHex has been called with a text that has an apostrophe
\* and a leading 0x and two groups of hex digits or more after them.
C12_Witness ==
    /\ called = "toHex"
    /\ Len(input) >= 2 /\ SubSeq(input, 1, 2) = <<"0", "x">>
    /\ \E j \in 1..Len(input) : input[j] = Apostrophe
    /\ \A j \in 1..Len(input) : input[j] \in WordChars \cup {Apostrophe}
    /\ Len(SimpleHexOf(input)) >= 8
    /\ result.text # input

\* C13: toAmount strips the apostrophes; when what is left is not one or
\* more decimal digits it fails; otherwise it returns those digits, in their
\* order, in groups of three from the right joined by apostrophes; and
\* toAmount of what toAmount returned is what toAmount returned.
C13_AmountGroupedByThree ==
    /\ called = "toAmount" =>
           LET digits == ApostrophesRemoved(input)
           IN  IF digits # <<>> /\ \A j \in 1..Len(digits) : digits[j] \in Digits
               THEN result = Returns(GroupedFromRight(digits, 3))
               ELSE ~result.ok
    /\ called = "toAmountAgain" => result = firstAmount

\* C13 witness: toAmount has been applied again to a result of three groups
\* that differs from the input, which had an apostrophe of its own.
C13_Witness ==
    /\ called = "toAmountAgain"
    /\ \E j \in 1..Len(input) : input[j] = Apostrophe
    /\ Len(ApostrophesRemoved(input)) > 6
    /\ firstAmount.ok
    /\ firstAmount.text # input

(***************************************************************************)
(* The destination file system: a function from the paths that exist to    *)
(* [kind, text, mode, by]; by records the call that wrote the content      *)
(* last ("render" for writeFile, "copy" for copyFile).                     *)
(***************************************************************************)
NewFileMode == "0644"

OwnerOnly == "0600"

IsDir(f, path) == path \in DOMAIN f /\ f[path].kind = "dir"

IsFile(f, path) == path \in DOMAIN f /\ f[path].kind = "file"

Put(f, path, entry) ==
    [q \in DOMAIN f \cup {path} |-> IF q = path THEN entry ELSE f[q]]

\* A path and the directories above it.
UpTo(path) ==
    {path} \cup {SubSeq(path, 1, i - 1) : i \in {j \in 1..Len(path) : path[j] = "/"}}

\* fsPromises.mkdir(path, { recursive: true })
mkdir(f, path) ==
    IF \E q \in UpTo(path) : IsFile(f, q)
    THEN Throws(<<"EEXIST: ">> \o path)
    ELSE [ok |-> TRUE,
          fs |-> [q \in DOMAIN f \cup UpTo(path) |->
                    IF q \in DOMAIN f THEN f[q]
                    ELSE [kind |-> "dir", text |-> <<>>, mode |-> "0755", by |-> "mkdir"]]]

\* The failure of a call that creates or truncates the file at path, if any.
openFailure(f, path) ==
    IF IsDir(f, path) THEN <<"EISDIR: ">> \o path
    ELSE IF ~IsDir(f, dirname(path)) THEN <<"ENOENT: ">> \o path
    ELSE <<>>

\* fsPromises.writeFile(path, data): an existing file keeps its mode.
writeFile(f, path, data) ==
    IF openFailure(f, path) # <<>> THEN Throws(openFailure(f, path))
    ELSE [ok |-> TRUE,
          fs |-> Put(f, path, [kind |-> "file", text |-> data, by |-> "render",
                               mode |-> IF IsFile(f, path) THEN f[path].mode
                                        ELSE NewFileMode])]

\* fsPromises.copyFile(from, path): content and mode of the source file.
copyFile(f, node, path) ==
    IF openFailure(f, path) # <<>> THEN Throws(openFailure(f, path))
    ELSE [ok |-> TRUE,
          fs |-> Put(f, path, [kind |-> "file", text |-> node.text, by |-> "copy",
                               mode |-> node.mode])]

\* Mutant of chmod: the mode is left as it is.
chmod_skipped(f, path, mode) ==
    IF path \notin DOMAIN f THEN Throws(<<"ENOENT: ">> \o path)
    ELSE [ok |-> TRUE, fs |-> f]

\* fsPromises.chmod(path, mode)
chmod(f, path, mode) ==
    IF path \notin DOMAIN f THEN Throws(<<"ENOENT: ">> \o path)
    ELSE [ok |-> TRUE, fs |-> [f EXCEPT ![path].mode = mode]]

(***************************************************************************)
(* generateConfiguration (lines 33-79).  Every source entry has one map    *)
(* callback, named by the entry's path; <<>> names the top-level call.     *)
(* The pc of a file's callback: unspawned, stat (line 50), read (59),      *)
(* write (62), copy (69), chmod (71), done, failed.  The pc of a           *)
(* directory's callback and of the call it makes: unspawned, stat (50),    *)
(* mkdir (74), mkdirCopyTo (42), readdir (43), await (44), done, failed.   *)
(***************************************************************************)
NodeAt(path) == CHOOSE n \in tree : n.path = path

ChildrenOf(dir) == {n.path : n \in {m \in tree : Parent(m.path) = dir}}

RECURSIVE fromPath(_)
\* line 46, with copyFrom the fromPath of the directory (line 75)
fromPath(path) ==
    IF path = <<>> THEN copyFrom ELSE join(fromPath(Parent(path)), path[Len(path)])

RECURSIVE toPath(_)
\* line 47, with copyTo the toPath of the directory (line 75)
toPath(path) ==
    IF path = <<>> THEN copyTo ELSE join(toPath(Parent(path)), path[Len(path)])

\* line 52
isMustache(path) == contains(path[Len(path)], ".mustache")

\* line 53
destinationFile(path) == replaceFirst(toPath(path), ".mustache")

\* line 54
fileName(path) == basename(destinationFile(path))

\* line 55
notBlacklisted(path) == fileName(path) \notin excludeFiles

\* line 56
inWhitelistIfAny(path) == includeFiles = {} \/ fileName(path) \in includeFiles

\* lines 60-66: the data handed to writeFile, or the error thrown
renderedDataWith(path, context) ==
    LET renderedTemplate == runTemplate(NodeAt(path).text, context)
    IN  IF ~renderedTemplate.ok THEN renderedTemplate
        ELSE IF endsWith(toLowerCase(destinationFile(path)), ".json")
             THEN formatJson(renderedTemplate.text)
             ELSE renderedTemplate

renderedData(path) == renderedDataWith(path, templateContext)

RECURSIVE Propagate(_, _, _)
\* Promise.all (lines 44, 78) and the awaits of lines 75 and 44, once the
\* callback of t has ended with pc p and errors e: the call of t's directory
\* rejects with the first rejection, or fulfils when every callback has.
Propagate(p, e, t) ==
    IF t = <<>> THEN [pc |-> p, err |-> e]
    ELSE LET dir == Parent(t)
         IN  IF p[dir] # "await" THEN [pc |-> p, err |-> e]
             ELSE IF p[t] = "failed"
                  THEN Propagate([p EXCEPT ![dir] = "failed"],
                                 [e EXCEPT ![dir] = e[t]], dir)
             ELSE IF \A c \in ChildrenOf(dir) : p[c] = "done"
                  THEN Propagate([p EXCEPT ![dir] = "done"], e, dir)
             ELSE [pc |-> p, err |-> e]

\* The callback or call t ends: fulfilled ("done") or rejected ("failed").
Ends(t, how, message) ==
    LET r == Propagate([pc EXCEPT ![t] = how], [err EXCEPT ![t] = message], t)
    IN  pc' = r.pc /\ err' = r.err

Goes(t, to) == pc' = [pc EXCEPT ![t] = to] /\ err' = err

SomeFailed == \E t \in DOMAIN pc : pc[t] = "failed"

Active(t) == pc[t] \notin {"unspawned", "done", "failed"}

Quiescent == \A t \in DOMAIN pc : ~Active(t)

Settled == pc[<<>>] \in {"done", "failed"}

StartedPc == [t \in {<<>>} \cup {n.path : n \in tree} |->
                IF t = <<>> THEN "mkdirCopyTo" ELSE "unspawned"]

NoErrors == [t \in {<<>>} \cup {n.path : n \in tree} |-> <<>>]

Init ==
    /\ tree \in TreesUpTo(MaxEntries)
    /\ templateContext \in Contexts
    /\ excludeFiles \in NameLists
    /\ includeFiles \in NameLists
    /\ pc = StartedPc
    /\ err = NoErrors
    /\ fs = <<>>
    /\ written = {}
    /\ lateStart = FALSE
    /\ run = "first"
    /\ firstRun = <<>>
    /\ obj = Undefined
    /\ heap = <<>>
    /\ pruned = Undefined
    /\ twice = Undefined
    /\ pstep = "idle"
    /\ input = <<>>
    /\ called = "idle"
    /\ result = <<>>
    /\ firstAmount = <<>>

\* line 42: await fsPromises.mkdir(copyTo, { recursive: true })
MkdirCopyTo(t) ==
    /\ pc[t] = "mkdirCopyTo"
    /\ LET r == mkdir(fs, toPath(t))
       IN  IF r.ok THEN fs' = r.fs /\ Goes(t, "readdir")
           ELSE fs' = fs /\ Ends(t, "failed", r.text)
    /\ UNCHANGED <<pvars, fvars, inputs, written, lateStart, run, firstRun>>

\* lines 43-50: readdir resolves; files.map starts one callback per entry,
\* each up to its stat; Promise.all of no entry fulfils at once.
Readdir(t) ==
    /\ pc[t] = "readdir"
    /\ IF ChildrenOf(t) = {}
       THEN Ends(t, "done", <<>>)
       ELSE /\ pc' = [q \in DOMAIN pc |->
                        IF q = t THEN "await"
                        ELSE IF q \in ChildrenOf(t) THEN "stat" ELSE pc[q]]
            /\ err' = err
    /\ lateStart' = (lateStart \/ (ChildrenOf(t) # {} /\ SomeFailed))
    /\ UNCHANGED <<pvars, fvars, inputs, fs, written, run, firstRun>>

\* lines 50-59, 69, 74: stat resolves; the callback filters a file and calls
\* readTextFile or copyFile, or calls mkdir for a directory.
Stat(t) ==
    /\ pc[t] = "stat"
    /\ IF NodeAt(t).kind = "file"
       THEN IF notBlacklisted(t) /\ inWhitelistIfAny(t)
            THEN Goes(t, IF isMustache(t) THEN "read" ELSE "copy")
            ELSE Ends(t, "done", <<>>)
       ELSE Goes(t, "mkdir")
    /\ UNCHANGED <<pvars, fvars, inputs, fs, written, lateStart, run, firstRun>>

\* lines 74-75, 42: the mirrored directory is made; the callback calls
\* generateConfiguration, which calls mkdir on the same path.
Mkdir(t) ==
    /\ pc[t] = "mkdir"
    /\ LET r == mkdir(fs, toPath(t))
       IN  IF r.ok THEN fs' = r.fs /\ Goes(t, "mkdirCopyTo")
           ELSE fs' = fs /\ Ends(t, "failed", r.text)
    /\ UNCHANGED <<pvars, fvars, inputs, written, lateStart, run, firstRun>>

\* lines 59-67: the template is read, rendered and, for a JSON name,
\* formatted; the callback calls writeFile, or throws.
ReadTemplate(t) ==
    /\ pc[t] = "read"
    /\ IF renderedData(t).ok
       THEN Goes(t, "write")
       ELSE Ends(t, "failed", renderedData(t).text)
    /\ UNCHANGED <<pvars, fvars, inputs, fs, written, lateStart, run, firstRun>>

\* lines 62-67, 71: writeFile takes effect; the callback calls chmod.
WriteFile(t) ==
    /\ pc[t] = "write"
    /\ LET r == writeFile(fs, destinationFile(t), renderedData(t).text)
       IN  IF r.ok
           THEN fs' = r.fs /\ written' = written \cup {t} /\ Goes(t, "chmod")
           ELSE fs' = fs /\ written' = written /\ Ends(t, "failed", r.text)
    /\ UNCHANGED <<pvars, fvars, inputs, lateStart, run, firstRun>>

\* lines 69, 71: copyFile takes effect; the callback calls chmod.
CopyFile(t) ==
    /\ pc[t] = "copy"
    /\ LET r == copyFile(fs, NodeAt(t), destinationFile(t))
       IN  IF r.ok
           THEN fs' = r.fs /\ written' = written \cup {t} /\ Goes(t, "chmod")
           ELSE fs' = fs /\ written' = written /\ Ends(t, "failed", r.text)
    /\ UNCHANGED <<pvars, fvars, inputs, lateStart, run, firstRun>>

\* line 71: chmod takes effect; the callback returns.
Chmod(t) ==
    /\ pc[t] = "chmod"
    /\ LET r == chmod(fs, destinationFile(t), OwnerOnly)
       IN  IF r.ok THEN fs' = r.fs /\ Ends(t, "done", <<>>)
           ELSE fs' = fs /\ Ends(t, "failed", r.text)
    /\ UNCHANGED <<pvars, fvars, inputs, written, lateStart, run, firstRun>>

\* The caller runs generateConfiguration again, with the same arguments, on
\* the destination the run before has left.
RunAgain ==
    /\ Quiescent
    /\ run = "first"
    /\ run' = "second"
    /\ firstRun' = fs
    /\ pc' = StartedPc
    /\ err' = NoErrors
    /\ written' = {}
    /\ lateStart' = FALSE
    /\ UNCHANGED <<pvars, fvars, inputs, fs>>

Next ==
    \/ \E t \in DOMAIN pc : MkdirCopyTo(t)
    \/ \E t \in DOMAIN pc : Readdir(t)
    \/ \E t \in DOMAIN pc : Stat(t)
    \/ \E t \in DOMAIN pc : Mkdir(t)
    \/ \E t \in DOMAIN pc : ReadTemplate(t)
    \/ \E t \in DOMAIN pc : WriteFile(t)
    \/ \E t \in DOMAIN pc : CopyFile(t)
    \/ \E t \in DOMAIN pc : Chmod(t)
    \/ RunAgain

Spec == Init /\ [][Next]_vars

(***************************************************************************)
(* Claims about generateConfiguration.                                     *)
(***************************************************************************)
FileTasks == {t \in DOMAIN pc \ {<<>>} : NodeAt(t).kind = "file"}

Spawned == {t \in FileTasks : pc[t] # "unspawned"}

HasSecret(message) == \E i \in 1..Len(message) : message[i] \in SecretValues

\* The file callbacks that failed in runTemplate or formatJson.
RenderFailures ==
    {t \in FileTasks : pc[t] = "failed" /\ isMustache(t) /\ err[t] = renderedData(t).text}

\* C1: no error of generateConfiguration or runTemplate carries text that
\* has not passed through the sanitizer: its message holds no secret of the
\* context, and is the same whatever the secret value of the context.
C1_ErrorsAreSanitized ==
    /\ \A t \in DOMAIN err : ~HasSecret(err[t])
    /\ \A t \in RenderFailures :
          \A context \in Contexts : renderedDataWith(t, context).text = err[t]

\* C2: every source entry is assigned a destination path no other source
\* entry is assigned, so no two file tasks write to the same destination.
C2_UniqueDestinations ==
    \A t1, t2 \in Spawned : t1 # t2 => destinationFile(t1) # destinationFile(t2)

\* C3: the top-level call settles, fulfilled or rejected, only after every
\* callback and recursive call it spawned has finished.
C3_SettledAfterAllTasks == Settled => Quiescent

\* The callbacks that failed of themselves, not by a call they awaited.
OriginFailures ==
    {t \in DOMAIN pc : pc[t] = "failed" /\ \A c \in ChildrenOf(t) : pc[c] # "failed"}

RECURSIVE TotalLength(_)
TotalLength(tasks) ==
    IF tasks = {} THEN 0
    ELSE LET t == CHOOSE x \in tasks : TRUE
         IN  Len(err[t]) + TotalLength(tasks \ {t})

IsPartOf(part, whole) ==
    \E i \in 0..(Len(whole) - Len(part)) : SubSeq(whole, i + 1, i + Len(part)) = part

\* The error the caller gets holds the message of every failure.
AggregatesEveryFailure ==
    /\ \A t \in OriginFailures : IsPartOf(err[t], err[<<>>])
    /\ Len(err[<<>>]) >= TotalLength(OriginFailures)

\* C4: when a file task fails, either (a) no task is started after the
\* failure, or (b) every dispatched task finishes and the error reported
\* aggregates every failure.
C4_FailurePolicy ==
    (Quiescent /\ SomeFailed) => (~lateStart \/ AggregatesEveryFailure)

\* The filter of the claim, on the file's own name with the marker stripped.
EligibleName(t) ==
    LET name == replaceFirst(t[Len(t)], ".mustache")
    IN  name \notin excludeFiles /\ (includeFiles = {} \/ name \in includeFiles)

\* C5: a source file, at any depth, is written if and only if its
\* destination basename (marker stripped) is not in excludeFiles and
\* includeFiles is empty or holds it.
C5_WrittenIffEligible ==
    \A t \in FileTasks : pc[t] = "done" => (t \in written <=> EligibleName(t))

JsonFiles == {p \in DOMAIN fs : IsFile(fs, p) /\ endsWith(toLowerCase(p), ".json")}

\* C6 as stated: every destination file with a .json name holds JSON
\* pretty-printed with two-space indentation.
C6_EveryJsonFilePretty == \A p \in JsonFiles : IsPrettyJson(fs[p].text)

\* C6 as amended: every destination file with a .json name (in any case)
\* whose content was last written from a rendered template holds JSON
\* pretty-printed with two-space indentation.
C6_RenderedJsonFilePretty ==
    \A p \in JsonFiles : fs[p].by = "render" => IsPrettyJson(fs[p].text)

\* C6 witness: a template whose rendering is JSON with other white space has
\* been written to a file named .JSON.
C6_Witness ==
    \E t \in written :
        /\ isMustache(t)
        /\ destinationFile(t) \in JsonFiles
        /\ fs[destinationFile(t)].by = "render"
        /\ runTemplate(NodeAt(t).text, templateContext).ok
        /\ ~IsPrettyJson(runTemplate(NodeAt(t).text, templateContext).text)

\* What a destination tree holds: paths, contents, permission bits.
TreeOf(f) == [p \in DOMAIN f |-> [kind |-> f[p].kind, text |-> f[p].text, mode |-> f[p].mode]]

\* C7: a second run with the same arguments, on the destination the first
\* run populated, leaves the same destination tree as the first.
C7_SecondRunIdentical ==
    (run = "second" /\ Quiescent) => TreeOf(fs) = TreeOf(firstRun)

\* C8: when generateConfiguration completes successfully, every destination
\* file it wrote, rendered or copied, has permission 0600.
C8_WrittenFilesOwnerOnly ==
    pc[<<>>] = "done" =>
        \A t \in written : fs[destinationFile(t)].mode = OwnerOnly

\* C8 witness: a successful run that rendered a template and copied a file
\* whose source is not 0600.
C8_Witness ==
    /\ pc[<<>>] = "done"
    /\ \E t \in written : isMustache(t)
    /\ \E t \in written : ~isMustache(t) /\ NodeAt(t).mode # OwnerOnly

\* The mirrored path of a file with the marker removed from the file's own
\* name: the directory's destination, then the name without the marker.
MirroredDestination(t) ==
    join(toPath(Parent(t)), replaceFirst(t[Len(t)], ".mustache"))

\* C14: for every template file, at any depth, the destination path is the
\* mirrored path (the destination root and the same directory names,
\* unchanged) with the marker removed from the file's own name, and the file
\* is written inside the mirrored directory the walk created for it.
C14_TemplateDestinationMirrored ==
    \A t \in Spawned :
        isMustache(t) =>
            /\ destinationFile(t) = MirroredDestination(t)
            /\ dirname(destinationFile(t)) = toPath(Parent(t))

\* The file callbacks about to write: at writeFile (line 62) or copyFile
\* (line 69).
AboutToWrite == {t \in FileTasks : pc[t] \in {"write", "copy"}}

\* The structural ordering: a callback runs only once the destination
\* directory of the directory it was listed in exists.
StartedUnderCreatedDirectory ==
    \A t \in DOMAIN pc \ {<<>>} :
        pc[t] # "unspawned" => IsDir(fs, toPath(Parent(t)))

\* C15: in every interleaving, a destination directory has been created
\* before any file task or subdirectory task for an entry of the source
\* directory starts, and no write targets a destination directory that does
\* not exist yet.
C15_DirectoryBeforeChildren ==
    /\ StartedUnderCreatedDirectory
    /\ \A t \in AboutToWrite : IsDir(fs, dirname(destinationFile(t)))

====
